---- MODULE Spec2Model ----
(***************************************************************************)
(* The HTTP adapter of the Legal Search Agent API (src/main.py): the        *)
(* session endpoints and the chat endpoint, which resolves or lazily        *)
(* creates a session, runs the agent and reduces the Runner's event stream  *)
(* to one reply.  The Session Store (InMemorySessionService) and the Runner *)
(* are collaborators from the agent framework: the store is modelled from   *)
(* the contract the specification gives for it, the Runner as an            *)
(* unconstrained producer of events that may end, raise or never answer.    *)
(*                                                                          *)
(* Handlers are asyncio coroutines.  A handler runs without interruption    *)
(* between two awaits; at an await other handlers may run.  The chat        *)
(* handler is therefore cut at its awaits: the store call (create or get),  *)
(* the start of the Runner's stream, and each event of the stream.          *)
(*                                                                          *)
(* One chat request is in flight at a time; the session endpoints run       *)
(* between its steps.                                                       *)
(*                                                                          *)
(* A handler's last step leaves its response in the state (pending, or the  *)
(* chat's status and reply); Respond sends it and forgets it.  Nothing else *)
(* runs in between: a handler returns without a further await.              *)
(***************************************************************************)
EXTENDS Naturals, Sequences, FiniteSets, TLC

VARIABLES sessions, nextId, created, deleted, returned, chat, pending

vars == <<sessions, nextId, created, deleted, returned, chat, pending>>

(* ----------------------------- bounds ---------------------------------- *)

\* Number of uuid4 values drawn in a run.
MaxIds == 2

\* Number of events one Runner stream yields at most.
MaxEvents == 2

(* --------------------------- values ------------------------------------ *)

APP_NAME == "legal_search_Agent"

DEFAULT_MODEL == "gemini-2.5-flash"

Users == {"default_user", "u2"}

\* Optional[str]: None, or a string.
NoneVal == [some |-> FALSE, val |-> ""]

Str(s) == [some |-> TRUE, val |-> s]

\* str(uuid.uuid4()): the n-th value drawn; no value is drawn twice.
Uuid(n) == "uuid-" \o ToString(n)

Uuids == {Uuid(n) : n \in 1..MaxIds}

\* The session_id values a client sends: omitted, the empty string, an id no
\* uuid4 call ever returns, and the ids the service hands out.
SessionIdInputs == {NoneVal, Str(""), Str("no-such-id")} \cup {Str(s) : s \in Uuids}

\* DELETE /sessions/{user_id}/{session_id}: the path segment is a non-empty string.
PathIds == {"no-such-id"} \cup Uuids

\* The message field of the body: missing, the empty string, a text.
MessageInputs == {NoneVal, Str(""), Str("hi")}

(* ------------------- Session Store (contract) -------------------------- *)
\* The store holds sessions keyed by (app_name, user_id, session_id).

Key(user_id, session_id) == <<APP_NAME, user_id, session_id>>

StoreCreate(store, user_id, session_id) == store \cup {Key(user_id, session_id)}

\* get returns the session, or None when the store holds none under the key.
StoreGet(store, user_id, session_id) ==
  IF Key(user_id, session_id) \in store THEN Str(session_id) ELSE NoneVal

StoreList(store, user_id) == {k \in store : k[1] = APP_NAME /\ k[2] = user_id}

StoreDelete(store, user_id, session_id) == store \ {Key(user_id, session_id)}

(* ------------------------- events -------------------------------------- *)
\* An attribute of an event is absent (hasattr is False), None, or a value.

Absent == [has |-> FALSE, some |-> FALSE, val |-> ""]

AttrNone == [has |-> TRUE, some |-> FALSE, val |-> ""]

Attr(s) == [has |-> TRUE, some |-> TRUE, val |-> s]

\* part.text is one of these three.  event.content: kind "absent" (no attribute), "none" (None), "noparts" (a
\* Content without the attribute parts), "partsnone" (parts is None),
\* "parts" (parts is a list).
Content(kind, parts) == [kind |-> kind, parts |-> parts]

Contents ==
  { Content("absent", <<>>), Content("none", <<>>), Content("noparts", <<>>),
    Content("partsnone", <<>>),
    Content("parts", <<Attr("a")>>),
    Content("parts", <<Attr("b"), Attr(""), AttrNone, Absent, Attr("c")>>) }

ModelVersions == {Absent, AttrNone, Attr("m1"), Attr("m2")}

Events == [content : Contents, model_version : ModelVersions]

\* The events of the full specification, where the requests interleave.
LifecycleEvents ==
  { [content |-> Content("parts", <<Attr("a")>>), model_version |-> Attr("m1")] }

(* ------------------ request and response models ------------------------ *)

\* ChatRequest: message is a required str field (Field(...)); every str passes.
ChatRequestValid(message) == message.some

\* ChatResponse: model is a required str field; None fails validation.
ChatResponseValid(model_version) == model_version.some

NoReply == [session_id |-> "", response |-> "", model |-> ""]

ChatResponse(session_id, response_text, model_version) ==
  [session_id |-> session_id, response |-> response_text, model |-> model_version.val]

NoBody == [kind |-> "none", status |-> "", session_id |-> "", user_id |-> "",
           app_name |-> "", sessions |-> {}]

SessionInfo(session_id, user_id) ==
  [NoBody EXCEPT !.kind = "SessionInfo", !.session_id = session_id,
                 !.user_id = user_id, !.app_name = APP_NAME]

\* [s.id for s in sessions]; the order is the store's and is not modelled.
SessionIds(listed) == {k[3] : k \in listed}

SessionList(user_id, listed) ==
  [NoBody EXCEPT !.kind = "list", !.user_id = user_id, !.sessions = SessionIds(listed)]

DeleteAck(session_id) ==
  [NoBody EXCEPT !.kind = "ack", !.status = "deleted", !.session_id = session_id]

(* --------------------- the chat handler's tests ------------------------ *)

\* `if not session_id`: None and the empty string are both falsy.
NotSessionId(session_id) == ~session_id.some \/ session_id.val = ""

\* Variant of NotSession: the result of the lookup is not tested.
NotSessionUntested(session) == FALSE

\* `if not session`: the store returned None.
NotSession(session) == ~session.some

\* `if hasattr(part, 'text') and part.text: response_text += part.text`
PartText(part) == IF part.has /\ part.some /\ part.val # "" THEN part.val ELSE ""

RECURSIVE PartsText(_)
PartsText(parts) ==
  IF parts = <<>> THEN "" ELSE PartText(Head(parts)) \o PartsText(Tail(parts))

\* `for part in event.content.parts` raises TypeError when parts is None.
EventRaises(event) == event.content.kind = "partsnone"

\* Variant of EventText: only the first part is read (parts[0].text).
EventTextFirstPart(event) ==
  IF event.content.kind = "parts" /\ event.content.parts # <<>>
  THEN PartText(Head(event.content.parts))
  ELSE ""

\* The text one event adds to response_text: content is there and truthy, it
\* has the attribute parts, and the parts are walked in order.
EventText(event) ==
  IF event.content.kind = "parts" THEN PartsText(event.content.parts) ELSE ""

\* `if hasattr(event, 'model_version'): model_version = event.model_version`
NextModelVersion(model_version, event) ==
  IF event.model_version.has
  THEN [some |-> event.model_version.some, val |-> event.model_version.val]
  ELSE model_version

(* --------------------------- state ------------------------------------- *)

NoRun == [user_id |-> "", session_id |-> "", message |-> ""]

\* The chat request in flight: the request (user_id, session_id_in, message),
\* the handler's locals (session_id, response_text, model_version), where it
\* stands (pc), the call it made to the Runner (run), and what the Runner's
\* stream did (events, stream).  store_called, invoked and existed record
\* what the handler did: a store call, the Runner call, and whether the store
\* held the session when the Runner was called.
IdleChat ==
  [pc |-> "idle", user_id |-> "", session_id_in |-> NoneVal, message |-> NoneVal,
   session_id |-> "", lazy |-> FALSE, store_called |-> FALSE, invoked |-> FALSE,
   run |-> NoRun, existed |-> FALSE, events |-> <<>>, stream |-> "none",
   response_text |-> "", model_version |-> NoneVal, status |-> 0, reply |-> NoReply]

\* The response of a session endpoint that is being sent: the request it
\* answers, the store as the handler found it, and the body.
NoPending == [op |-> "none", user_id |-> "", session_id |-> "", before |-> {},
              body |-> NoBody]

Pending(op, user_id, session_id, body) ==
  [op |-> op, user_id |-> user_id, session_id |-> session_id, before |-> sessions,
   body |-> body]

\* created, deleted: the keys a handler has created, and has deleted since.
\* returned: the keys of the lazily created sessions a chat reply has returned.
Init ==
  /\ sessions = {}
  /\ nextId = 1
  /\ created = {}
  /\ deleted = {}
  /\ returned = {}
  /\ chat = IdleChat
  /\ pending = NoPending

\* No response is being sent.
Quiet == pending.op = "none" /\ chat.pc # "done"

(* ------------------------ session endpoints ---------------------------- *)

\* POST /sessions
create_session(user_id) ==
  /\ Quiet
  /\ nextId <= MaxIds
  /\ LET session_id == Uuid(nextId) IN
       /\ sessions' = StoreCreate(sessions, user_id, session_id)
       /\ created' = created \cup {Key(user_id, session_id)}
       /\ pending' = Pending("create", user_id, "", SessionInfo(session_id, user_id))
  /\ nextId' = nextId + 1
  /\ UNCHANGED <<deleted, returned, chat>>

\* Variant of list_sessions: the sessions of every user are listed.
list_sessions_all(user_id) ==
  /\ Quiet
  /\ pending' = Pending("list", user_id, "", SessionList(user_id, sessions))
  /\ UNCHANGED <<sessions, nextId, created, deleted, returned, chat>>

\* GET /sessions/{user_id}
list_sessions(user_id) ==
  /\ Quiet
  /\ pending' = Pending("list", user_id, "",
                        SessionList(user_id, StoreList(sessions, user_id)))
  /\ UNCHANGED <<sessions, nextId, created, deleted, returned, chat>>

\* Variant of delete_session: a session the store does not hold is answered 404.
delete_session_strict(user_id, session_id) ==
  /\ Quiet
  /\ sessions' = StoreDelete(sessions, user_id, session_id)
  /\ deleted' = deleted \cup ({Key(user_id, session_id)} \cap created)
  /\ pending' = Pending("delete", user_id, session_id,
                        IF NotSession(StoreGet(sessions, user_id, session_id))
                        THEN [NoBody EXCEPT !.kind = "error", !.status = "Session not found"]
                        ELSE DeleteAck(session_id))
  /\ UNCHANGED <<nextId, created, returned, chat>>

\* DELETE /sessions/{user_id}/{session_id}
delete_session(user_id, session_id) ==
  /\ Quiet
  /\ sessions' = StoreDelete(sessions, user_id, session_id)
  /\ deleted' = deleted \cup ({Key(user_id, session_id)} \cap created)
  /\ pending' = Pending("delete", user_id, session_id, DeleteAck(session_id))
  /\ UNCHANGED <<nextId, created, returned, chat>>

(* --------------------------- POST /chat -------------------------------- *)

\* Request validation and lines 107-123: the session is created (no session_id)
\* or looked up (404 when the store has none), in one store call.
ChatResolve(user_id, session_id, message) ==
  /\ Quiet
  /\ chat.pc = "idle"
  /\ LET rq == [IdleChat EXCEPT !.user_id = user_id, !.session_id_in = session_id,
                                !.message = message] IN
       IF ~ChatRequestValid(message)
       THEN /\ chat' = [rq EXCEPT !.pc = "done", !.status = 422]
            /\ UNCHANGED <<sessions, nextId, created>>
       ELSE IF NotSessionId(session_id)
       THEN /\ nextId <= MaxIds
            /\ sessions' = StoreCreate(sessions, user_id, Uuid(nextId))
            /\ created' = created \cup {Key(user_id, Uuid(nextId))}
            /\ nextId' = nextId + 1
            /\ chat' = [rq EXCEPT !.pc = "resolved", !.lazy = TRUE, !.store_called = TRUE,
                                  !.session_id = Uuid(nextId)]
       ELSE /\ IF NotSession(StoreGet(sessions, user_id, session_id.val))
               THEN chat' = [rq EXCEPT !.pc = "done", !.status = 404, !.store_called = TRUE]
               ELSE chat' = [rq EXCEPT !.pc = "resolved", !.store_called = TRUE,
                                       !.session_id = session_id.val]
            /\ UNCHANGED <<sessions, nextId, created>>
  /\ UNCHANGED <<deleted, returned, pending>>

\* Variant of RunnerArgs: the request's session_id is passed, not the local.
RunnerArgsRequestId ==
  [user_id |-> chat.user_id, session_id |-> chat.session_id_in.val,
   message |-> chat.message.val]

\* The arguments of runner.run_async (lines 135-139).
RunnerArgs ==
  [user_id |-> chat.user_id, session_id |-> chat.session_id, message |-> chat.message.val]

\* Lines 126-139: the user message is built and runner.run_async is called.
ChatInvoke ==
  /\ Quiet
  /\ chat.pc = "resolved"
  /\ chat' = [chat EXCEPT !.pc = "running", !.invoked = TRUE, !.run = RunnerArgs,
                          !.stream = "open",
                          !.existed = StoreGet(sessions, chat.user_id, chat.session_id).some,
                          !.response_text = "", !.model_version = Str(DEFAULT_MODEL)]
  /\ UNCHANGED <<sessions, nextId, created, deleted, returned, pending>>

\* Variant of ChatConsume: the handler returns from inside the loop, with the
\* text of the first event.
ChatConsumeReturns(event) ==
  /\ Quiet
  /\ chat.pc = "running"
  /\ Len(chat.events) < MaxEvents
  /\ chat' = IF EventRaises(event)
             THEN [chat EXCEPT !.pc = "done", !.status = 500, !.events = Append(@, event)]
             ELSE [chat EXCEPT !.pc = "done", !.status = 200,
                               !.events = Append(@, event),
                               !.response_text = @ \o EventText(event),
                               !.model_version = NextModelVersion(@, event),
                               !.reply = ChatResponse(chat.session_id,
                                                      chat.response_text \o EventText(event),
                                                      Str(DEFAULT_MODEL))]
  /\ UNCHANGED <<sessions, nextId, created, deleted, returned, pending>>

\* Lines 135-146: the Runner yields one event and the loop body handles it.
ChatConsume(event) ==
  /\ Quiet
  /\ chat.pc = "running"
  /\ Len(chat.events) < MaxEvents
  /\ chat' = IF EventRaises(event)
             THEN [chat EXCEPT !.pc = "done", !.status = 500, !.events = Append(@, event)]
             ELSE [chat EXCEPT !.events = Append(@, event),
                               !.response_text = @ \o EventText(event),
                               !.model_version = NextModelVersion(@, event)]
  /\ UNCHANGED <<sessions, nextId, created, deleted, returned, pending>>

\* Lines 148-152: the stream has ended and the ChatResponse is built.
ChatEnd ==
  /\ Quiet
  /\ chat.pc = "running"
  /\ IF ChatResponseValid(chat.model_version)
     THEN /\ chat' = [chat EXCEPT !.pc = "done", !.status = 200, !.stream = "ended",
                        !.reply = ChatResponse(chat.session_id, chat.response_text,
                                               chat.model_version)]
          /\ returned' = returned \cup
                IF chat.lazy THEN {Key(chat.user_id, chat.session_id)} ELSE {}
     ELSE /\ chat' = [chat EXCEPT !.pc = "done", !.status = 500, !.stream = "ended"]
          /\ UNCHANGED returned
  /\ UNCHANGED <<sessions, nextId, created, deleted, pending>>

\* The Runner raises instead of yielding the next event: the exception leaves
\* the handler.
ChatRunnerFail ==
  /\ Quiet
  /\ chat.pc = "running"
  /\ chat' = [chat EXCEPT !.pc = "done", !.status = 500, !.stream = "raised"]
  /\ UNCHANGED <<sessions, nextId, created, deleted, returned, pending>>

\* The response that is being sent has been sent: the request is over.
Respond ==
  /\ ~Quiet
  /\ pending' = NoPending
  /\ chat' = IF chat.pc = "done" THEN IdleChat ELSE chat
  /\ UNCHANGED <<sessions, nextId, created, deleted, returned>>

(* ------------------------- specifications ------------------------------ *)

\* The endpoints together.  The Runner's stream never has to end: a chat may
\* stay in "running" for ever.
Next ==
  \/ \E u \in Users : create_session(u)
  \/ \E u \in Users : list_sessions(u)
  \/ \E u \in Users, s \in PathIds : delete_session(u, s)
  \/ \E u \in Users, s \in SessionIdInputs, m \in MessageInputs : ChatResolve(u, s, m)
  \/ ChatInvoke
  \/ \E e \in LifecycleEvents : ChatConsume(e)
  \/ ChatEnd
  \/ ChatRunnerFail
  \/ Respond

Spec == Init /\ [][Next]_vars

\* One chat request, with every shape of event.
NextReduce ==
  \/ \E u \in Users, s \in SessionIdInputs, m \in MessageInputs : ChatResolve(u, s, m)
  \/ ChatInvoke
  \/ \E e \in Events : ChatConsume(e)
  \/ ChatEnd
  \/ ChatRunnerFail

SpecReduce == Init /\ [][NextReduce]_vars

(* ------------------------------ claims --------------------------------- *)

\* The first step of a chat request: validation and session resolution.
ResolveStep == chat.pc = "idle" /\ chat'.pc # "idle"

\* The key the request's own session_id names.
RequestKey(c) == Key(c.user_id, c.session_id_in.val)

\* The key of the session the handler works with.
ChatKey(c) == Key(c.user_id, c.session_id)

\* C1: a valid chat request that supplies a session_id - any
\* string - that the store does not hold under the request's user is answered
\* 404, the Runner is not called and the store is left as it was.
C1_UnresolvedSessionRejected ==
  [][ (/\ ResolveStep
       /\ chat'.message.some
       /\ chat'.session_id_in.some
       /\ RequestKey(chat') \notin sessions)
      => (/\ chat'.pc = "done"
          /\ chat'.status = 404
          /\ ~chat'.invoked
          /\ sessions' = sessions) ]_vars

\* What the handler does do (C1 restricted to the ids that are not the empty
\* string): an unknown one is answered 404, without the Runner and with the
\* store left as it was.
NonEmptyUnknownSessionRejected ==
  [][ (/\ ResolveStep
       /\ chat'.message.some
       /\ chat'.session_id_in.some
       /\ chat'.session_id_in.val # ""
       /\ RequestKey(chat') \notin sessions)
      => (/\ chat'.pc = "done"
          /\ chat'.status = 404
          /\ ~chat'.invoked
          /\ sessions' = sessions
          /\ created' = created) ]_vars

\* A 404 for an id that exists, but only under another user.
OtherUsersSessionRejected ==
  /\ chat.status = 404
  /\ \E u \in Users \ {chat.user_id} : Key(u, chat.session_id_in.val) \in sessions

\* C2: a valid chat request without a session_id creates exactly one session,
\* under the request's user and a fresh id; that id goes to the Runner and
\* into the reply.  A later chat request of the same user with a returned id,
\* the session not deleted since, is not answered 404, creates nothing and
\* calls the Runner with that id.
C2_LazySessionReused ==
  /\ [](/\ chat.lazy => ChatKey(chat) \in created
        /\ chat.invoked =>
             /\ chat.run.user_id = chat.user_id
             /\ chat.run.session_id = chat.session_id
             /\ ~chat.lazy => chat.run.session_id = chat.session_id_in.val
        /\ chat.status = 200 => chat.reply.session_id = chat.session_id)
  /\ [][ /\ (ResolveStep /\ chat'.message.some /\ ~chat'.session_id_in.some)
            => (/\ chat'.pc = "resolved"
                /\ \A k \in created : k[3] # chat'.session_id
                /\ sessions' = sessions \cup {ChatKey(chat')}
                /\ Cardinality(sessions') = Cardinality(sessions) + 1)
         /\ (/\ ResolveStep
             /\ chat'.message.some
             /\ chat'.session_id_in.some
             /\ RequestKey(chat') \in returned \ deleted)
            => (/\ chat'.pc = "resolved"
                /\ chat'.session_id = chat'.session_id_in.val
                /\ sessions' = sessions
                /\ nextId' = nextId) ]_vars

\* C2, witness: a follow-up request on a returned, lazily created session has
\* been answered 200.
C2_Witness ==
  /\ chat.status = 200
  /\ ~chat.lazy
  /\ ChatKey(chat) \in returned

\* The text fragments of the event list, joined from the last event back.
RECURSIVE Join(_)
Join(texts) ==
  IF texts = <<>> THEN ""
  ELSE Join(SubSeq(texts, 1, Len(texts) - 1)) \o texts[Len(texts)]

\* T_i: the text of the parts of one event, in order; empty when the event has
\* no content, no parts, or parts without text.
FragmentsText(event) ==
  IF event.content.kind = "parts"
  THEN Join([i \in 1..Len(event.content.parts) |->
               IF event.content.parts[i].has /\ event.content.parts[i].some
               THEN event.content.parts[i].val ELSE ""])
  ELSE ""

ExpectedResponse(events) == Join([i \in 1..Len(events) |-> FragmentsText(events[i])])

RECURSIVE LastSpecified(_)
LastSpecified(events) ==
  IF events = <<>> THEN DEFAULT_MODEL
  ELSE LET last == events[Len(events)].model_version IN
       IF last.has /\ last.some THEN last.val
       ELSE LastSpecified(SubSeq(events, 1, Len(events) - 1))

\* C4: when the Runner's stream has ended, the chat is answered with the
\* model_version of the last event that specifies one (None specifies none),
\* or with the default.
C4_ModelIsLastSpecified ==
  chat.stream = "ended" =>
    /\ chat.status = 200
    /\ chat.reply.model = LastSpecified(chat.events)

\* C5: DELETE answers {status: "deleted", session_id: <path id>} whether or not
\* the session exists; afterwards the store is the store before without the
\* key, so a delete of a session that is not there changes nothing, the second
\* of two equal deletes included.
C5_DeleteIdempotent ==
  pending.op = "delete" =>
    /\ pending.body.kind = "ack"
    /\ pending.body.status = "deleted"
    /\ pending.body.session_id = pending.session_id
    /\ sessions = pending.before \ {Key(pending.user_id, pending.session_id)}
    /\ Key(pending.user_id, pending.session_id) \notin pending.before
         => sessions = pending.before

\* C5, witness: a session that was deleted is deleted again.
C5_Witness ==
  /\ pending.op = "delete"
  /\ Key(pending.user_id, pending.session_id) \in deleted
  /\ Key(pending.user_id, pending.session_id) \notin pending.before

\* C6: a chat request whose message is the empty string is
\* rejected at validation, before any store call and before the Runner.
C6_EmptyMessageRejected ==
  (chat.pc # "idle" /\ chat.message = Str("")) =>
    (chat.status = 422 /\ ~chat.store_called /\ ~chat.invoked)

\* What the validation does do: a chat request without a message is rejected,
\* before any store call and before the Runner; the empty string is a message,
\* passes validation and reaches the store call.
MissingMessageRejected ==
  /\ [](/\ (chat.pc # "idle" /\ ~chat.message.some)
           => (chat.pc = "done" /\ chat.status = 422 /\ ~chat.store_called
               /\ ~chat.invoked)
        /\ chat.invoked => (chat.message.some /\ chat.run.message = chat.message.val))
  /\ [][ /\ (ResolveStep /\ ~chat'.message.some)
            => (sessions' = sessions /\ created' = created /\ nextId' = nextId)
         /\ (ResolveStep /\ chat'.message = Str(""))
            => (chat'.status # 422 /\ chat'.store_called) ]_vars

\* A request without a message has been answered 422.
MissingMessageAnswered422 == chat.status = 422 /\ chat.session_id_in = NoneVal

\* C7: a 200 reply exists only once the Runner's stream has ended, and carries
\* the text of every event of it; when the Runner raises, the request fails
\* and there is no reply; while the stream is open there is no reply.
C7_NoPartialReply ==
  /\ chat.status = 200 =>
       /\ chat.stream = "ended"
       /\ chat.reply.response = chat.response_text
  /\ chat.stream = "raised" => (chat.status = 500 /\ chat.reply = NoReply)
  /\ chat.stream = "open" => (chat.status \in {0, 500} /\ chat.reply = NoReply)
  /\ chat.reply # NoReply => chat.status = 200

\* C7, witness: the Runner raised after events with text; the request failed.
C7_Witness ==
  /\ chat.stream = "raised"
  /\ Len(chat.events) = 2
  /\ chat.response_text # ""
  /\ chat.status = 500

\* C8: GET /sessions/{user_id} answers with the ids created for that user, by
\* POST /sessions or by a chat, and not deleted since, and with no other id;
\* the store is left as it was.
C8_ListIsLiveSessions ==
  pending.op = "list" =>
    /\ pending.body.kind = "list"
    /\ pending.body.user_id = pending.user_id
    /\ pending.body.sessions =
         {k[3] : k \in {x \in created \ deleted : x[2] = pending.user_id}}
    /\ sessions = pending.before

\* C8, witness: a listing that holds a lazily created session while the store
\* also holds a session of another user.
C8_Witness ==
  /\ pending.op = "list"
  /\ \E k \in returned : k[2] = pending.user_id /\ k[3] \in pending.body.sessions
  /\ \E k \in sessions : k[2] # pending.user_id

C10_LazyOnlyWhenOmitted == chat.lazy => ~chat.session_id_in.some

\* What the handler does do: the lazy-creation branch is taken exactly when
\* session_id is omitted or the empty string; every other supplied id is looked
\* up, creates nothing, and is answered 404 when unknown.
LazyIffOmittedOrEmpty ==
  /\ []((chat.pc # "idle" /\ chat.message.some) =>
          (chat.lazy <=> (~chat.session_id_in.some \/ chat.session_id_in.val = "")))
  /\ [][ (/\ ResolveStep
          /\ chat'.message.some
          /\ chat'.session_id_in.some
          /\ chat'.session_id_in.val # "")
         => (/\ nextId' = nextId
             /\ sessions' = sessions
             /\ RequestKey(chat') \notin sessions => chat'.status = 404) ]_vars

\* A request with session_id "" had a session created for it.
EmptySessionIdCreates == chat.lazy /\ chat.session_id_in = Str("") /\ chat.invoked

====
